---------------------------- MODULE Spec2Model ----------------------------
(***************************************************************************)
(* Model of d3/script.js: the scene viewer (time index, play/pause, timer, *)
(* class toggles) and its Kepler propagator with cross-validation.         *)
(*                                                                         *)
(* NUMBERS.  A JavaScript value is a record [k, v]:                        *)
(*    k = "num"        a finite number, v its fixed-point value            *)
(*    k = "nan"        NaN                                                 *)
(*    k = "inf"        +Infinity (v = 1) or -Infinity (v = -1)             *)
(*    k = "null"       null                                                *)
(*    k = "undefined"  undefined (a missing key, an index past the end)    *)
(* A finite real r is held as the integer r * 1000 (three decimals), in    *)
(* these units: angles in radians, degrees in degrees, lengths in 1e8 km,  *)
(* time spans in units of 100 days.  Julian dates are held as JD * 10      *)
(* (tenths of a day), so that a difference of two dates is already a time  *)
(* span in fixed point (0.1 day = 0.001 * 100 days).                       *)
(***************************************************************************)
EXTENDS Integers, Sequences, FiniteSets, TLC

\* ------------------------------------------------------------------------
\* State
\* ------------------------------------------------------------------------
VARIABLES
    scene,            \* the loaded scene.json, or null before the load
    load,             \* the d3.json promise: "pending", "resolved", "rejected"
    tIndex,           \* the time index (a number)
    playing,          \* the playing flag
    speed,            \* the speed factor (a number)
    timer,            \* the timer held in `timer`: "null" or "timer"
    runningTimers,    \* the number of d3 timers that are running
    activeObjects,    \* ids selected for drawing
    clsSubsampleFrac, \* class -> subsample fraction
    drawn,            \* the bodies in the svg, in order, each with its trail points
    call,             \* the last call of a propagator function, with its result
    memo,             \* the first such call made, kept for comparison
    map               \* one object of the orbital map: its orbit, body and label

viewerVars == << scene, load, tIndex, playing, speed, timer, runningTimers,
                 activeObjects, clsSubsampleFrac, drawn, map >>
vars == << scene, load, tIndex, playing, speed, timer, runningTimers,
           activeObjects, clsSubsampleFrac, drawn, call, memo, map >>


\* ------------------------------------------------------------------------
\* JavaScript values and IEEE arithmetic, restricted to what script.js uses
\* ------------------------------------------------------------------------
N(v) == [k |-> "num", v |-> v]
NaN == [k |-> "nan", v |-> 0]
Inf(s) == [k |-> "inf", v |-> s]
Null == [k |-> "null", v |-> 0]
Undefined == [k |-> "undefined", v |-> 0]

IsNum(a) == a.k = "num"
Sign(v) == IF v < 0 THEN -1 ELSE IF v > 0 THEN 1 ELSE 0
AbsInt(v) == IF v < 0 THEN -v ELSE v

\* ToNumber: null is 0, undefined is NaN
ToNumber(a) == IF a.k = "null" THEN N(0) ELSE IF a.k = "undefined" THEN NaN ELSE a

\* truthiness of a value: null, undefined, NaN and 0 are falsy
Truthy(a) == a.k = "inf" \/ (a.k = "num" /\ a.v # 0)

\* a || b
OrElse(a, b) == IF Truthy(a) THEN a ELSE b

\* integer division rounding toward zero and its remainder (JavaScript's %)
TruncDiv(p, q) == Sign(p) * Sign(q) * (AbsInt(p) \div AbsInt(q))
TruncRem(p, q) == p - q * TruncDiv(p, q)

\* `const x = v; ...`: v is evaluated once and the rest reads its value
Let1(v, F(_)) == CHOOSE r \in { F(x) : x \in { v } } : TRUE
Let2(v, w, F(_, _)) == CHOOSE r \in { F(x, y) : x \in { v }, y \in { w } } : TRUE

Neg(x) ==
    Let1(ToNumber(x), LAMBDA a :
        IF a.k = "num" THEN N(-a.v) ELSE IF a.k = "inf" THEN Inf(-a.v) ELSE NaN)

Add(x, y) ==
    Let2(ToNumber(x), ToNumber(y), LAMBDA a, b :
        IF a.k = "nan" \/ b.k = "nan" THEN NaN
        ELSE IF a.k = "inf" /\ b.k = "inf" THEN (IF a.v = b.v THEN a ELSE NaN)
        ELSE IF a.k = "inf" THEN a
        ELSE IF b.k = "inf" THEN b
        ELSE N(a.v + b.v))

Sub(x, y) == Add(x, Neg(y))

Mul(x, y) ==
    Let2(ToNumber(x), ToNumber(y), LAMBDA a, b :
        IF a.k = "nan" \/ b.k = "nan" THEN NaN
        ELSE IF a.k = "inf" \/ b.k = "inf"
             THEN (IF Sign(a.v) * Sign(b.v) = 0 THEN NaN ELSE Inf(Sign(a.v) * Sign(b.v)))
        ELSE N(TruncDiv(a.v * b.v, 1000)))

Div(x, y) ==
    Let2(ToNumber(x), ToNumber(y), LAMBDA a, b :
        IF a.k = "nan" \/ b.k = "nan" THEN NaN
        ELSE IF a.k = "inf" /\ b.k = "inf" THEN NaN
        ELSE IF a.k = "inf" THEN Inf(a.v * (IF b.v < 0 THEN -1 ELSE 1))
        ELSE IF b.k = "inf" THEN N(0)
        ELSE IF b.v = 0 THEN (IF a.v = 0 THEN NaN ELSE Inf(Sign(a.v)))
        ELSE N(TruncDiv(a.v * 1000, b.v)))

\* a < b: false as soon as one side is NaN
Lt(x, y) ==
    Let2(ToNumber(x), ToNumber(y), LAMBDA a, b :
        IF a.k = "nan" \/ b.k = "nan" THEN FALSE
        ELSE IF a.k = "inf" THEN a.v = -1 /\ ~(b.k = "inf" /\ b.v = -1)
        ELSE IF b.k = "inf" THEN b.v = 1
        ELSE a.v < b.v)

\* Math.abs
Abs(x) ==
    Let1(ToNumber(x), LAMBDA a :
        IF a.k = "num" THEN N(AbsInt(a.v)) ELSE IF a.k = "inf" THEN Inf(1) ELSE NaN)

\* a % b
Mod(x, y) ==
    Let2(ToNumber(x), ToNumber(y), LAMBDA a, b :
        IF a.k = "nan" \/ b.k = "nan" \/ a.k = "inf" THEN NaN
        ELSE IF b.k = "inf" THEN a
        ELSE IF b.v = 0 THEN NaN
        ELSE N(TruncRem(a.v, b.v)))

\* floor of the square root of a natural number, by bisection
RECURSIVE ISqrtIn(_, _, _)
ISqrtIn(n, lo, hi) ==
    IF lo >= hi THEN lo
    ELSE Let1((lo + hi + 1) \div 2, LAMBDA mid :
             IF mid * mid <= n THEN ISqrtIn(n, mid, hi) ELSE ISqrtIn(n, lo, mid - 1))
ISqrt(n) == ISqrtIn(n, 0, IF n < 46340 THEN n ELSE 46340)

\* Math.sqrt: NaN below zero
Sqrt(x) ==
    Let1(ToNumber(x), LAMBDA a :
        IF a.k = "nan" THEN NaN
        ELSE IF a.k = "inf" THEN (IF a.v = 1 THEN a ELSE NaN)
        ELSE IF a.v < 0 THEN NaN
        ELSE N(ISqrt(a.v * 1000)))

\* Math.PI, and 2*Math.PI
PI == N(3142)
TwoPi == N(6284)

\* sin on [0, pi/2] (fixed point in, fixed point out): the Taylor polynomial
\* x - x^3/6 + x^5/120 - x^7/5040
SinQuarter(x) ==
    Let1((x * x) \div 1000, LAMBDA x2 :
    Let1((x2 * x) \div 1000, LAMBDA x3 :
    Let1((x3 * x2) \div 1000, LAMBDA x5 :
    Let1(x - (x3 \div 6) + (x5 \div 120) - (((x5 * x2) \div 1000) \div 5040), LAMBDA s :
        IF s > 1000 THEN 1000 ELSE IF s < 0 THEN 0 ELSE s))))

\* sin of a finite angle, by reduction to the first quarter turn
SinInt(x) ==
    Let1(x % TwoPi.v, LAMBDA t :
        IF t <= PI.v \div 2 THEN SinQuarter(t)
        ELSE IF t <= PI.v THEN SinQuarter(PI.v - t)
        ELSE IF t <= PI.v + PI.v \div 2 THEN -SinQuarter(t - PI.v)
        ELSE -SinQuarter(TwoPi.v - t))

\* Math.sin, Math.cos: NaN for a non-finite argument
Sin(x) ==
    Let1(ToNumber(x), LAMBDA a : IF a.k = "num" THEN N(SinInt(a.v)) ELSE NaN)
Cos(x) ==
    Let1(ToNumber(x), LAMBDA a :
        IF a.k = "num" THEN N(SinInt(a.v + PI.v \div 2)) ELSE NaN)

\* arctan on [0, 1]: t*pi/4 + 0.273*t*(1 - t)
Atan01(t) == (785 * t) \div 1000 + (273 * t * (1000 - t)) \div 1000000

\* arctan(y/x) for x, y >= 0, not both 0
AtanPos(y, x) ==
    IF y <= x THEN Atan01((y * 1000) \div x)
    ELSE PI.v \div 2 - Atan01((x * 1000) \div y)

\* Math.atan2 of finite arguments (NaN as soon as one is NaN)
Atan2(yy, xx) ==
    Let2(ToNumber(yy), ToNumber(xx), LAMBDA a, b :
        IF a.k # "num" \/ b.k # "num" THEN NaN
        ELSE IF a.v = 0 /\ b.v = 0 THEN N(0)
        ELSE IF b.v >= 0 /\ a.v >= 0 THEN N(AtanPos(a.v, b.v))
        ELSE IF b.v < 0 /\ a.v >= 0 THEN N(PI.v - AtanPos(a.v, -b.v))
        ELSE IF b.v < 0 THEN N(AtanPos(-a.v, -b.v) - PI.v)
        ELSE N(-AtanPos(-a.v, b.v)))

\* ------------------------------------------------------------------------
\* Kepler propagator
\* ------------------------------------------------------------------------
\* 1.495978707e8 km, in units of 1e8 km
AU_KM == N(1496)
\* 1.32712440018e11 km^3/s^2, in (1e8 km)^3 / (100 days)^2
MU_SUN == N(9907)
\* the factor 86400.0 that turns a difference of dates into the time unit of
\* MU_SUN: date differences are already in that unit here
SecondsPerDay == N(1000)
\* J2000, 2451545.0, as JD * 10
J2000 == N(24515450)
\* the defaults tol = 1e-9 (the smallest positive fixed-point number) and
\* maxiter = 80
DefaultTol == N(1)
DefaultMaxIter == 80

\* a loop body without the break of line 382
KeplerStepNoBreak(s, M, e, tol, maxiter) ==
    IF s.done \/ s.updates >= maxiter THEN s
    ELSE Let2(Sub(Sub(s.E, Mul(e, Sin(s.E))), M),
              Sub(N(1000), Mul(e, Cos(s.E))), LAMBDA f, fp :
         Let1(Div(Neg(f), fp), LAMBDA dE :
             [E |-> Add(s.E, dE), updates |-> s.updates + 1, done |-> FALSE]))

\* a loop body that breaks as soon as an update is below one radian
KeplerStepLoose(s, M, e, tol, maxiter) ==
    IF s.done \/ s.updates >= maxiter THEN s
    ELSE Let2(Sub(Sub(s.E, Mul(e, Sin(s.E))), M),
              Sub(N(1000), Mul(e, Cos(s.E))), LAMBDA f, fp :
         Let1(Div(Neg(f), fp), LAMBDA dE :
             [E |-> Add(s.E, dE), updates |-> s.updates + 1,
              done |-> Lt(Abs(dE), N(1000))]))

\* one pass of the loop body of solveKepler (lines 377-383) on the loop state
\* s = [E, updates, done]: done is the break of line 382, updates the number
\* of passes made; a finished loop is left as it is
KeplerStep(s, M, e, tol, maxiter) ==
    IF s.done \/ s.updates >= maxiter THEN s
    ELSE Let2(Sub(Sub(s.E, Mul(e, Sin(s.E))), M),
              Sub(N(1000), Mul(e, Cos(s.E))), LAMBDA f, fp :
         Let1(Div(Neg(f), fp), LAMBDA dE :
             [E |-> Add(s.E, dE), updates |-> s.updates + 1,
              done |-> Lt(Abs(dE), tol)]))

\* n further passes of the for loop of solveKepler from the loop state s
\* (the passes are split in halves, which keeps the evaluation shallow)
RECURSIVE KeplerLoop(_, _, _, _, _, _)
KeplerLoop(s, M, e, tol, maxiter, n) ==
    IF s.done \/ n <= 0 THEN s
    ELSE IF n = 1 THEN KeplerStep(s, M, e, tol, maxiter)
    ELSE Let1(KeplerLoop(s, M, e, tol, maxiter, n \div 2), LAMBDA m :
             KeplerLoop(m, M, e, tol, maxiter, n - n \div 2))

\* the normalisation of line 375: ((M % 2pi) + 2pi) % 2pi
NormalizeAngle(M) == Mod(Add(Mod(M, TwoPi), TwoPi), TwoPi)

\* an initial guess that takes pi only above 0.8
InitialGuessAbove(Mn, e) == IF ~Lt(N(800), e) THEN Mn ELSE PI

\* the initial guess of line 376, from the normalised M
InitialGuess(Mn, e) == IF Lt(e, N(800)) THEN Mn ELSE PI

\* solveKepler: the final loop state [E, updates, done]
solveKeplerRun(M, e, tol, maxiter) ==
    Let1(NormalizeAngle(M), LAMBDA Mn :
    Let1(InitialGuess(Mn, e), LAMBDA E0 :
        KeplerLoop([E |-> E0, updates |-> 0, done |-> FALSE],
                   Mn, e, tol, maxiter, maxiter)))

solveKepler(M, e, tol, maxiter) == solveKeplerRun(M, e, tol, maxiter).E

\* degrees to radians: deg * Math.PI/180
Radians(deg) == Div(Mul(deg, PI), N(180000))

\* a mean anomaly that starts from 0 when there is no target date
MeanAnomalyAtFromZero(a_km, M_deg, epochJD, targetJD) ==
    Let2(Sqrt(Div(MU_SUN, Mul(Mul(a_km, a_km), a_km))), Radians(M_deg), LAMBDA n, M0 :
        IF targetJD.k # "null"
        THEN Add(M0, Mul(n, Mul(Sub(targetJD, epochJD), SecondsPerDay)))
        ELSE N(0))

\* a mean anomaly whose rate is taken from the square of a_km
MeanAnomalyAtSquare(a_km, M_deg, epochJD, targetJD) ==
    Let2(Sqrt(Div(MU_SUN, Mul(a_km, a_km))), Radians(M_deg), LAMBDA n, M0 :
        IF targetJD.k # "null"
        THEN Add(M0, Mul(n, Mul(Sub(targetJD, epochJD), SecondsPerDay)))
        ELSE M0)

\* the mean anomaly at the target date (lines 396-404); targetJD = Null is
\* the absent date
MeanAnomalyAt(a_km, M_deg, epochJD, targetJD) ==
    Let2(Sqrt(Div(MU_SUN, Mul(Mul(a_km, a_km), a_km))), Radians(M_deg), LAMBDA n, M0 :
        IF targetJD.k # "null"
        THEN Add(M0, Mul(n, Mul(Sub(targetJD, epochJD), SecondsPerDay)))
        ELSE M0)

\* a rotation matrix with the sign of a term of r21 reversed
RotationMatrixSkew(i, Omega, omega) ==
    Let2(<< Cos(Omega), Sin(Omega), Cos(i) >>, << Sin(i), Cos(omega), Sin(omega) >>,
         LAMBDA p, q :
         LET cosO == p[1]
             sinO == p[2]
             cosi == p[3]
             sini == q[1]
             cosw == q[2]
             sinw == q[3]
         IN  [r11 |-> Sub(Mul(cosO, cosw), Mul(Mul(sinO, sinw), cosi)),
              r12 |-> Sub(Neg(Mul(cosO, sinw)), Mul(Mul(sinO, cosw), cosi)),
              r13 |-> Mul(sinO, sini),
              r21 |-> Sub(Mul(sinO, cosw), Mul(Mul(cosO, sinw), cosi)),
              r22 |-> Add(Neg(Mul(sinO, sinw)), Mul(Mul(cosO, cosw), cosi)),
              r23 |-> Neg(Mul(cosO, sini)),
              r31 |-> Mul(sinw, sini),
              r32 |-> Mul(cosw, sini),
              r33 |-> cosi])

\* the rotation matrix of lines 418-430
RotationMatrix(i, Omega, omega) ==
    Let2(<< Cos(Omega), Sin(Omega), Cos(i) >>, << Sin(i), Cos(omega), Sin(omega) >>,
         LAMBDA p, q :
         LET cosO == p[1]
             sinO == p[2]
             cosi == p[3]
             sini == q[1]
             cosw == q[2]
             sinw == q[3]
         IN  [r11 |-> Sub(Mul(cosO, cosw), Mul(Mul(sinO, sinw), cosi)),
              r12 |-> Sub(Neg(Mul(cosO, sinw)), Mul(Mul(sinO, cosw), cosi)),
              r13 |-> Mul(sinO, sini),
              r21 |-> Add(Mul(sinO, cosw), Mul(Mul(cosO, sinw), cosi)),
              r22 |-> Add(Neg(Mul(sinO, sinw)), Mul(Mul(cosO, cosw), cosi)),
              r23 |-> Neg(Mul(cosO, sini)),
              r31 |-> Mul(sinw, sini),
              r32 |-> Mul(cosw, sini),
              r33 |-> cosi])

\* the position in the perifocal frame (lines 405-415)
Perifocal(a_km, e, M) ==
    Let1(solveKepler(M, e, DefaultTol, DefaultMaxIter), LAMBDA E :
    Let2(Cos(E), Sin(E), LAMBDA cosE, sinE :
    Let2(Atan2(Mul(Sqrt(Sub(N(1000), Mul(e, e))), sinE), Sub(cosE, e)),
         Mul(a_km, Sub(N(1000), Mul(e, cosE))), LAMBDA nu, r :
        << Mul(r, Cos(nu)), Mul(r, Sin(nu)), N(0) >>)))

elementsToPosition(a_AU, e, i_deg, Omega_deg, omega_deg, M_deg, epochJD, targetJD) ==
    Let1(Mul(a_AU, AU_KM), LAMBDA a_km :
    Let2(Perifocal(a_km, e, MeanAnomalyAt(a_km, M_deg, epochJD, targetJD)),
         RotationMatrix(Radians(i_deg), Radians(Omega_deg), Radians(omega_deg)),
         LAMBDA pf, R :
        << Add(Add(Mul(R.r11, pf[1]), Mul(R.r12, pf[2])), Mul(R.r13, pf[3])),
           Add(Add(Mul(R.r21, pf[1]), Mul(R.r22, pf[2])), Mul(R.r23, pf[3])),
           Add(Add(Mul(R.r31, pf[1]), Mul(R.r32, pf[2])), Mul(R.r33, pf[3])) >>))

\* ------------------------------------------------------------------------
\* Cross-validation of the elements against the recorded positions
\* ------------------------------------------------------------------------
\* arr[i] of a JavaScript array (0-based): undefined past the end
At(arr, i) == IF i >= 0 /\ i < Len(arr) THEN arr[i + 1] ELSE Undefined

\* a guard that reads a_AU without testing obj.elements first: the read of a
\* property of undefined or null is a TypeError
GuardOutcomeUntested(obj) ==
    IF obj.elements.k # "obj" THEN "throw"
    ELSE IF ~Truthy(obj.elements.a_AU) THEN "absent"
    ELSE IF obj.elements.e.k = "undefined" THEN "absent"
    ELSE IF obj.elements.i_deg.k = "undefined" THEN "absent"
    ELSE "pass"

\* the guard of line 439, its disjuncts taken left to right: !obj.elements
\* returns null before any property of obj.elements is read, so the reads of
\* a_AU, e and i_deg that follow are reads of an object and cannot throw
GuardOutcome(obj) ==
    IF obj.elements.k # "obj" THEN "absent"
    ELSE IF ~Truthy(obj.elements.a_AU) THEN "absent"
    ELSE IF obj.elements.e.k = "undefined" THEN "absent"
    ELSE IF obj.elements.i_deg.k = "undefined" THEN "absent"
    ELSE "pass"

\* the guard of line 439 lets the object through: the elements are there,
\* a_AU is truthy, and e and i_deg are not undefined
ElementsUsable(obj) == GuardOutcome(obj) = "pass"

\* the test of line 446 on time index i
IsValidIndex(obj, i) == At(obj.x, i).k # "null" /\ At(obj.y, i).k # "null"

\* validIdx of lines 444-447: the indices i = from .. times.length-1 that pass
RECURSIVE ValidFrom(_, _, _)
ValidFrom(obj, times, i) ==
    IF i >= Len(times) THEN << >>
    ELSE (IF IsValidIndex(obj, i) THEN << i >> ELSE << >>) \o ValidFrom(obj, times, i + 1)

ValidIdx(obj, times) == ValidFrom(obj, times, 0)

\* a stride that ignores the number of valid indices
SampleStepOne(validCount, numSamples) == IF numSamples = 0 THEN Inf(1) ELSE N(1)

\* a stride rounded up instead of down
SampleStepUp(validCount, numSamples) ==
    IF numSamples = 0 THEN Inf(1)
    ELSE N((validCount + numSamples - 1) \div numSamples)

\* step of line 450; numSamples = 0 makes the quotient, and the step, Infinity
SampleStep(validCount, numSamples) ==
    IF numSamples = 0 THEN Inf(1)
    ELSE N(IF validCount \div numSamples > 1 THEN validCount \div numSamples ELSE 1)

\* a loop that does not stop at numSamples samples
RECURSIVE SamplesFromUncapped(_, _, _, _)
SamplesFromUncapped(validIdx, numSamples, j, samples) ==
    IF j < Len(validIdx) /\ numSamples > 0
    THEN SamplesFromUncapped(validIdx, numSamples,
                             j + SampleStep(Len(validIdx), numSamples).v,
                             Append(samples, At(validIdx, j)))
    ELSE samples

\* the loop of lines 451-453 from position j on, with the samples taken so far
RECURSIVE SamplesFrom(_, _, _, _)
SamplesFrom(validIdx, numSamples, j, samples) ==
    IF j < Len(validIdx) /\ Len(samples) < numSamples
    THEN SamplesFrom(validIdx, numSamples,
                     j + SampleStep(Len(validIdx), numSamples).v,
                     Append(samples, At(validIdx, j)))
    ELSE samples

SelectSamples(validIdx, numSamples) == SamplesFrom(validIdx, numSamples, 0, << >>)

\* a propagation that takes the node, the periapsis, the anomaly at epoch
\* and the epoch from the elements
PropagatedAtOwn(obj, times, idx) ==
    elementsToPosition(obj.elements.a_AU, obj.elements.e, obj.elements.i_deg,
                       obj.elements.Omega_deg, obj.elements.omega_deg,
                       obj.elements.M_deg, obj.elements.epochJD, At(times, idx))

\* the propagated position of line 459 for the sample at time index idx
PropagatedAt(obj, times, idx) ==
    elementsToPosition(obj.elements.a_AU, obj.elements.e, obj.elements.i_deg,
                       N(0), N(0), N(0), J2000, At(times, idx))

\* the recorded z of line 463, an absent one taken as 0
RecordedZ(obj, idx) == OrElse(At(obj.z, idx), N(0))

\* a residual that drops the z component when the recorded z is absent
ResidualFlat(obj, times, idx) ==
    Let1(PropagatedAt(obj, times, idx), LAMBDA p :
    Let2(Sub(OrElse(At(obj.x, idx), N(0)), p[1]),
         Sub(OrElse(At(obj.y, idx), N(0)), p[2]), LAMBDA dx, dy :
    Let1(IF At(obj.z, idx).k = "num" THEN Sub(At(obj.z, idx), p[3]) ELSE N(0), LAMBDA dz :
        [idx |-> idx, p |-> p, dx |-> dx, dy |-> dy, dz |-> dz,
         sq |-> Add(Add(Mul(dx, dx), Mul(dy, dy)), Mul(dz, dz))])))

\* the residual of one sample (lines 457-464)
Residual(obj, times, idx) ==
    Let1(PropagatedAt(obj, times, idx), LAMBDA p :
    Let2(Sub(OrElse(At(obj.x, idx), N(0)), p[1]),
         Sub(OrElse(At(obj.y, idx), N(0)), p[2]), LAMBDA dx, dy :
    Let1(Sub(RecordedZ(obj, idx), p[3]), LAMBDA dz :
        [idx |-> idx, p |-> p, dx |-> dx, dy |-> dy, dz |-> dz,
         sq |-> Add(Add(Mul(dx, dx), Mul(dy, dy)), Mul(dz, dz))])))

\* the residuals of the samples from position k on, in order
RECURSIVE ResidualsFrom(_, _, _, _)
ResidualsFrom(obj, times, samples, k) ==
    IF k > Len(samples) THEN << >>
    ELSE << Residual(obj, times, samples[k]) >> \o ResidualsFrom(obj, times, samples, k + 1)

\* sqsum of lines 454-466 over the residuals from position k on
RECURSIVE SqSumFrom(_, _)
SqSumFrom(terms, k) ==
    IF k > Len(terms) THEN N(0) ELSE Add(terms[k].sq, SqSumFrom(terms, k + 1))

NoResult == [k |-> "null", rms_km |-> Undefined, samples |-> 0]

\* the call ended in an exception and returned nothing
Thrown == [k |-> "throw", rms_km |-> Undefined, samples |-> 0]

\* how the call ends when the guard of line 439 does not let the object through
GuardReturn(obj) == IF GuardOutcome(obj) = "throw" THEN Thrown ELSE NoResult

\* lines 449-469: the samples, their residuals and the result
SampleAndCompare(obj, times, numSamples, validIdx) ==
    Let1(SelectSamples(validIdx, numSamples), LAMBDA samples :
    Let1(ResidualsFrom(obj, times, samples, 1), LAMBDA terms :
        [ret |-> IF Len(samples) = 0 THEN NoResult
                 ELSE [k |-> "obj",
                       rms_km |-> Sqrt(Div(SqSumFrom(terms, 1), N(Len(samples) * 1000))),
                       samples |-> Len(samples)],
         validIdx |-> validIdx, samples |-> samples, terms |-> terms]))

\* a validation that skips the first time index while the animation is paused
crossValidateRunStateful(obj, times, numSamples) ==
    IF ~ElementsUsable(obj)
    THEN [ret |-> NoResult, validIdx |-> << >>, samples |-> << >>, terms |-> << >>]
    ELSE Let1(ValidFrom(obj, times, IF playing THEN 0 ELSE 1), LAMBDA validIdx :
             IF Len(validIdx) < 3
             THEN [ret |-> NoResult, validIdx |-> validIdx,
                   samples |-> << >>, terms |-> << >>]
             ELSE SampleAndCompare(obj, times, numSamples, validIdx))

\* crossValidateElements against the time grid `times`: what it returns, with
\* the locals it has computed when it returns
crossValidateRun(obj, times, numSamples) ==
    IF ~ElementsUsable(obj)
    THEN [ret |-> GuardReturn(obj), validIdx |-> << >>, samples |-> << >>, terms |-> << >>]
    ELSE Let1(ValidIdx(obj, times), LAMBDA validIdx :
             IF Len(validIdx) < 3
             THEN [ret |-> NoResult, validIdx |-> validIdx,
                   samples |-> << >>, terms |-> << >>]
             ELSE SampleAndCompare(obj, times, numSamples, validIdx))

\* ------------------------------------------------------------------------
\* Scenes
\* ------------------------------------------------------------------------
\* time grid length, grid spacing (tenths of a day), largest sample count
NT == 4
GridStep == 400
MaxSamples == 3

Grid == 0 .. (NT - 1)

\* times_jd: a regular grid starting at J2000
TimesJd == [k \in 1..NT |-> N(J2000.v + GridStep * (k - 1))]

\* recorded coordinates at time index i
RecX(i) == 1496 - 600 * i
RecY(i) == 500 * i
RecZ(i) == 200 * i - 200

\* a recorded array of length len, null at the indices in nulls
XArray(nulls, len) == [k \in 1..len |-> IF (k - 1) \in nulls THEN Null ELSE N(RecX(k - 1))]
YArray(nulls, len) == [k \in 1..len |-> IF (k - 1) \in nulls THEN Null ELSE N(RecY(k - 1))]
ZArray(nulls, len) == [k \in 1..len |-> IF (k - 1) \in nulls THEN Null ELSE N(RecZ(k - 1))]

Elements(a, e, i, Om, om, M, ep) ==
    [k |-> "obj", a_AU |-> a, e |-> e, i_deg |-> i,
     Omega_deg |-> Om, omega_deg |-> om, M_deg |-> M, epochJD |-> ep]

\* obj.elements missing (undefined) or null
NoElements(kind) ==
    [k |-> kind, a_AU |-> Undefined, e |-> Undefined, i_deg |-> Undefined,
     Omega_deg |-> Undefined, omega_deg |-> Undefined, M_deg |-> Undefined,
     epochJD |-> Undefined]

Body(id, cls, el, x, y, z) ==
    [id |-> id, class |-> cls, elements |-> el, x |-> x, y |-> y, z |-> z]

SceneOf(objects) == [k |-> "obj", times_jd |-> TimesJd, objects |-> objects]
NoScene == [k |-> "null", times_jd |-> << >>, objects |-> << >>]

\* element sets whose a, e, i are present, absent, null or out of range
ElementChoices ==
    { NoElements("undefined"), NoElements("null") } \cup
    { Elements(a, e, i, N(0), N(0), N(0), J2000) :
        a \in { Undefined, Null, N(0), N(1000), N(-1000) },
        e \in { Undefined, Null, N(0), N(500), N(1500) },
        i \in { Undefined, Null, N(0), N(30000) } }

\* usable element sets with every orientation and epoch
OrientedChoices ==
    { Elements(N(1000), e, i, Om, om, M, ep) :
        e \in { N(0), N(500) }, i \in { N(0), N(30000) },
        Om \in { N(0), N(40000) }, om \in { N(0), N(60000) },
        M \in { N(0), N(90000) }, ep \in { J2000, N(J2000.v + 1000) } }

\* recorded arrays: x null anywhere, y and z null in places, x and y
\* possibly shorter than the time grid
ArrayChoices ==
    { << XArray(xn, xl), YArray(yn, yl), ZArray(zn, NT) >> :
        xn \in SUBSET Grid, xl \in { NT, 1 },
        yn \in { {}, {1} }, yl \in { NT, 2 },
        zn \in { {}, Grid, {2} } }
    \cup
    { << XArray({}, NT), YArray({}, NT), ZArray(zn, 1) >> : zn \in { {}, Grid } }

FullArrays(zn) == << XArray({}, NT), YArray({}, NT), ZArray(zn, NT) >>

\* one-object scenes for the calls of crossValidateElements
OneObjectScenes ==
    { SceneOf(<< Body("b1", "asteroids", el, arr[1], arr[2], arr[3]) >>) :
        el \in ElementChoices, arr \in { FullArrays({}), FullArrays(Grid) } }
    \cup
    { SceneOf(<< Body("b1", "asteroids", el, arr[1], arr[2], arr[3]) >>) :
        el \in { Elements(N(1000), N(500), N(30000), N(0), N(0), N(0), J2000),
                 NoElements("undefined") },
        arr \in ArrayChoices }
    \cup
    { SceneOf(<< Body("b1", "asteroids", el, arr[1], arr[2], arr[3]) >>) :
        el \in OrientedChoices, arr \in { FullArrays({}) } }

\* the viewer's scene: two asteroids with elements, the first one with too
\* few recorded positions, the second one on an eccentric, oriented orbit
ViewerScene ==
    SceneOf(<< Body("b1", "asteroids",
                    Elements(N(1000), N(0), N(30000), N(0), N(0), N(0), J2000),
                    XArray(Grid \ { 0, 1 }, NT), YArray({}, NT), ZArray({2}, NT)),
               Body("b2", "asteroids",
                    Elements(N(1000), N(500), N(0), N(40000), N(60000), N(90000),
                             N(J2000.v + 1000)),
                    XArray({1}, NT), YArray({}, NT), ZArray(Grid, NT)) >>)

AllClasses == { "asteroids" }

\* values of the speed input, of the time slider and of a subsample input
SpeedChoices == { N(1000), N(2000) }
SliderChoices == { N(1000), N((NT + 1) * 1000) }
FracChoices == { N(500), N(1000) }

\* arguments of the direct calls of solveKepler
KeplerChoices == { << N(-2000), N(500) >> }

\* how far the timer may push the time index before the scene is there
MaxEarlyIndex == 1

\* no transition of the orbital map
NoTransition == [kind |-> "none", ticked |-> FALSE, toOpacity |-> 0, toLabel |-> 0, toR |-> 0]

\* the orbital map with nothing rendered
NoMap == [pointer |-> "none", focused |-> FALSE, opacity |-> 0, label |-> 0, display |-> "none",
          r |-> 0, r0 |-> 0, pending |-> "none", active |-> NoTransition, events |-> 0]

NoCall == [fn |-> "none", obj |-> 0, n |-> 0, at |-> FALSE, run |-> << >>]

\* ------------------------------------------------------------------------
\* Calls of the propagator functions
\* ------------------------------------------------------------------------
\* solveKepler(M, e), lines 372-385
solveKeplerCall(M, e) ==
    /\ call' = [fn |-> "solveKepler", obj |-> 0, n |-> 0, at |-> FALSE,
                run |-> solveKeplerRun(M, e, DefaultTol, DefaultMaxIter)]
    /\ UNCHANGED << viewerVars, memo >>

\* elementsToPosition with the elements of scene.objects[o] at times_jd[t]
\* (t = -1: no target date), lines 387-435
elementsToPositionCall(o, t) ==
    /\ scene.k = "obj"
    /\ o \in 1..Len(scene.objects)
    /\ scene.objects[o].elements.k = "obj"
    /\ LET el == scene.objects[o].elements
       IN  call' = [fn |-> "elementsToPosition", obj |-> o, n |-> t, at |-> FALSE,
                    run |-> elementsToPosition(el.a_AU, el.e, el.i_deg, el.Omega_deg,
                                el.omega_deg, el.M_deg, el.epochJD,
                                IF t < 0 THEN Null ELSE At(scene.times_jd, t))]
    /\ UNCHANGED << viewerVars, memo >>

\* a call that stores 0 in place of the absent z of the object
crossValidateElementsCallStoring(o, n) ==
    /\ scene.k = "obj"
    /\ o \in 1..Len(scene.objects)
    /\ call' = [fn |-> "crossValidateElements", obj |-> o, n |-> n, at |-> playing,
                run |-> crossValidateRun(scene.objects[o], scene.times_jd, n)]
    /\ scene' = [scene EXCEPT !.objects[o].z =
                     [k \in 1..Len(scene.objects[o].z) |->
                         OrElse(scene.objects[o].z[k], N(0))]]
    /\ UNCHANGED << load, tIndex, playing, speed, timer, runningTimers,
                    activeObjects, clsSubsampleFrac, drawn, map >>

\* crossValidateElements(scene.objects[o], n), lines 438-470; the record of
\* the call notes whether the animation was playing when it was made
crossValidateElementsCall(o, n) ==
    /\ scene.k = "obj"
    /\ o \in 1..Len(scene.objects)
    /\ call' = [fn |-> "crossValidateElements", obj |-> o, n |-> n, at |-> playing,
                run |-> crossValidateRun(scene.objects[o], scene.times_jd, n)]
    /\ UNCHANGED viewerVars

\* memo keeps the record of the first call of crossValidateElements
RememberFirst == memo' = IF memo.fn = "none" /\ call'.fn = "crossValidateElements" THEN call' ELSE memo

\* the loop of crossValidateAll (lines 476-484) from object o on, with
\* `examined` results already there: the results pushed, and the objects that
\* crossValidateElements has been run on
RECURSIVE ResultsFrom(_, _, _, _, _)
ResultsFrom(objects, times, limit, o, examined) ==
    IF o > Len(objects) THEN [results |-> << >>, validated |-> << >>]
    ELSE IF objects[o].elements.k # "obj"
         THEN ResultsFrom(objects, times, limit, o + 1, examined)
    ELSE Let1(crossValidateRun(objects[o], times, 6).ret, LAMBDA res :
         Let1(IF res.k = "null" THEN examined ELSE examined + 1, LAMBDA counted :
         Let1(IF counted >= limit THEN [results |-> << >>, validated |-> << >>]
              ELSE ResultsFrom(objects, times, limit, o + 1, counted), LAMBDA rest :
             [results |->
                  (IF res.k = "null" THEN << >>
                   ELSE << [id |-> objects[o].id, class |-> objects[o].class,
                            rms_km |-> res.rms_km, samples |-> res.samples] >>)
                  \o rest.results,
              validated |-> << o >> \o rest.validated])))

crossValidateAllRun(objects, times, limit) == ResultsFrom(objects, times, limit, 1, 0)

\* the values d3.mean and d3.median take from rmsvals: the numbers, NaN
\* (and null and undefined) left out
NumbersOf(vals) == SelectSeq(vals, LAMBDA a : a.k \in { "num", "inf" })

RECURSIVE SumFrom(_, _)
SumFrom(vals, k) == IF k > Len(vals) THEN N(0) ELSE Add(vals[k], SumFrom(vals, k + 1))

\* d3.mean: undefined when no number is there
Mean(vals) ==
    Let1(NumbersOf(vals), LAMBDA nums :
        IF Len(nums) = 0 THEN Undefined ELSE Div(SumFrom(nums, 1), N(Len(nums) * 1000)))

\* the numbers in ascending order
RECURSIVE SortedFrom(_, _)
SortedFrom(nums, k) ==
    IF k > Len(nums) THEN << >>
    ELSE Let1(SortedFrom(nums, k + 1), LAMBDA rest :
             SelectSeq(rest, LAMBDA a : Lt(a, nums[k])) \o << nums[k] >> \o
             SelectSeq(rest, LAMBDA a : ~Lt(a, nums[k])))

\* d3.median: the quantile 0.5 of the numbers, undefined when none is there
Median(vals) ==
    Let1(SortedFrom(NumbersOf(vals), 1), LAMBDA sorted :
        IF Len(sorted) = 0 THEN Undefined
        ELSE IF Len(sorted) % 2 = 1 THEN sorted[(Len(sorted) + 1) \div 2]
        ELSE Let2(sorted[Len(sorted) \div 2], sorted[Len(sorted) \div 2 + 1], LAMBDA v0, v1 :
                 Add(v0, Mul(Sub(v1, v0), N(500)))))

\* the summary of crossValidateAll: count = rmsvals.length, mean and median over
\* the `used` values that d3 takes; mean.toFixed(3) throws a
\* TypeError when the mean is undefined
SummaryOf(results) ==
    Let1([k \in 1..Len(results) |-> results[k].rms_km], LAMBDA rmsvals :
        IF Len(rmsvals) = 0
        THEN [count |-> 0, used |-> 0, mean |-> Undefined, median |-> Undefined, threw |-> FALSE]
        ELSE [count |-> Len(rmsvals), used |-> Len(NumbersOf(rmsvals)),
              mean |-> Mean(rmsvals), median |-> Median(rmsvals),
              threw |-> Mean(rmsvals).k = "undefined"])

\* the record of one run of crossValidateAll
ReportOf(all, limit, at) ==
    [fn |-> "crossValidateAll", obj |-> 0, n |-> limit, at |-> at,
     run |-> all.results, validated |-> all.validated, summary |-> SummaryOf(all.results)]

\* a report that drops the objects without a result from the active set
crossValidateAllCallPruning(limit) ==
    /\ scene.k = "obj"
    /\ LET all == crossValidateAllRun(scene.objects, scene.times_jd, limit)
       IN  /\ call' = ReportOf(all, limit, playing)
           /\ activeObjects' = { id \in activeObjects :
                                   \E k \in 1..Len(all.results) : all.results[k].id = id }
    /\ UNCHANGED << scene, load, tIndex, playing, speed, timer, runningTimers,
                    clsSubsampleFrac, drawn, memo, map >>

\* crossValidateAll(limit), lines 473-494, on the loaded scene
crossValidateAllCall(limit) ==
    /\ scene.k = "obj"
    /\ call' = Let1(crossValidateAllRun(scene.objects, scene.times_jd, limit),
                     LAMBDA all : ReportOf(all, limit, playing))
    /\ UNCHANGED << viewerVars, memo >>

\* ------------------------------------------------------------------------
\* The propagator on its own: a loaded one-object scene, and calls
\* ------------------------------------------------------------------------
InitCV ==
    /\ scene \in OneObjectScenes
    /\ load = "resolved"
    /\ tIndex = N(0)
    /\ playing = TRUE
    /\ speed = N(1000)
    /\ timer = "timer"
    /\ runningTimers = 1
    /\ activeObjects = {}
    /\ drawn = << >>
    /\ map = NoMap
    /\ clsSubsampleFrac = [c \in AllClasses |-> IF c = "asteroids" THEN N(1000) ELSE Undefined]
    /\ call = NoCall
    /\ memo = NoCall

NextCV ==
    \/ \E n \in 0..MaxSamples \cup { NT + 1 } : crossValidateElementsCall(1, n) /\ UNCHANGED memo
    \/ \E t \in { -1, NT - 1 } : elementsToPositionCall(1, t)

SpecCV == InitCV /\ [][NextCV]_vars

\* ------------------------------------------------------------------------
\* crossValidateAll on scenes of several objects
\* ------------------------------------------------------------------------
\* most objects of a scene, largest limit passed
MaxObjects == 3
MaxLimit == 3

\* an object without elements, one with elements and too few recorded
\* positions for a result, one that yields a result, and one whose negative
\* semi-major axis makes the rms of its result NaN
BodyKinds == { "bare", "sparse", "good", "stray" }

BodyOfKind(kind, id) ==
    IF kind = "bare"
    THEN Body(id, "asteroids", NoElements("undefined"),
              XArray({}, NT), YArray({}, NT), ZArray({}, NT))
    ELSE IF kind = "sparse"
    THEN Body(id, "asteroids", Elements(N(1000), N(0), N(30000), N(0), N(0), N(0), J2000),
              XArray(Grid \ { 0, 1 }, NT), YArray({}, NT), ZArray({}, NT))
    ELSE Body(id, "asteroids",
              Elements(IF kind = "stray" THEN N(-1000) ELSE N(1000),
                       N(500), N(30000), N(0), N(0), N(0), J2000),
              XArray({}, NT), YArray({}, NT), ZArray({}, NT))

BodyId(o) == IF o = 1 THEN "b1" ELSE IF o = 2 THEN "b2" ELSE IF o = 3 THEN "b3" ELSE "b4"

ManyObjectScenes ==
    { SceneOf([o \in 1..MaxObjects |-> BodyOfKind(kinds[o], BodyId(o))]) :
        kinds \in [1..MaxObjects -> BodyKinds] }

InitAll ==
    /\ scene \in ManyObjectScenes
    /\ load = "resolved"
    /\ tIndex = N(0)
    /\ playing = TRUE
    /\ speed = N(1000)
    /\ timer = "timer"
    /\ runningTimers = 1
    /\ activeObjects = {}
    /\ drawn = << >>
    /\ map = NoMap
    /\ clsSubsampleFrac = [c \in AllClasses |-> IF c = "asteroids" THEN N(1000) ELSE Undefined]
    /\ call = NoCall
    /\ memo = NoCall

NextAll == \E limit \in 0..MaxLimit : crossValidateAllCall(limit)

SpecAll == InitAll /\ [][NextAll]_vars

\* ------------------------------------------------------------------------
\* elementsToPosition on its own: one element set, and calls at target dates
\* ------------------------------------------------------------------------
\* most whole periods, and most grid steps, between the epoch and a target
MaxPeriods == 2
MaxSteps == 3

\* usable element sets with every orientation and epoch, and a wider and a
\* negative semi-major axis
PropagatedChoices ==
    OrientedChoices \cup
    { Elements(a, N(500), N(30000), N(40000), N(60000), N(90000), N(J2000.v + 1000)) :
        a \in { N(2000), N(-1000) } }

PropagatedScenes ==
    { SceneOf(<< Body("b1", "asteroids", el, XArray({}, NT), YArray({}, NT), ZArray({}, NT)) >>) :
        el \in PropagatedChoices }

\* the period 2 pi / n of the orbit, n the mean motion of line 396 taken per
\* unit of the Julian dates
OrbitalPeriod(a_AU) ==
    Let1(Mul(a_AU, AU_KM), LAMBDA a_km :
        Div(TwoPi, Mul(Sqrt(Div(MU_SUN, Mul(Mul(a_km, a_km), a_km))), SecondsPerDay)))

\* the target date of a call: none, k whole periods from the epoch of the
\* elements, or k grid steps from it
TargetDate(el, how, k) ==
    IF how = "none" THEN Null
    ELSE IF how = "periods" THEN Add(el.epochJD, Mul(N(k * 1000), OrbitalPeriod(el.a_AU)))
    ELSE Add(el.epochJD, N(k * GridStep))

InitProp ==
    /\ scene \in PropagatedScenes
    /\ load = "resolved"
    /\ tIndex = N(0)
    /\ playing = TRUE
    /\ speed = N(1000)
    /\ timer = "timer"
    /\ runningTimers = 1
    /\ activeObjects = {}
    /\ drawn = << >>
    /\ map = NoMap
    /\ clsSubsampleFrac = [c \in AllClasses |-> IF c = "asteroids" THEN N(1000) ELSE Undefined]
    /\ call = NoCall
    /\ memo = NoCall

\* elementsToPosition with the elements of scene.objects[1] and the target
\* date TargetDate(el, how, k), lines 387-435
elementsToPositionAt(how, k) ==
    /\ scene.k = "obj"
    /\ LET el == scene.objects[1].elements
           targetJD == TargetDate(el, how, k)
       IN  call' = [fn |-> "elementsToPosition", obj |-> 1, n |-> k, at |-> FALSE,
                    how |-> how, target |-> targetJD,
                    run |-> elementsToPosition(el.a_AU, el.e, el.i_deg, el.Omega_deg,
                                el.omega_deg, el.M_deg, el.epochJD, targetJD)]
    /\ UNCHANGED << viewerVars, memo >>

NextProp ==
    \/ elementsToPositionAt("none", 0)
    \/ \E k \in (0 - MaxPeriods)..MaxPeriods : elementsToPositionAt("periods", k)
    \/ \E k \in 1..MaxSteps : elementsToPositionAt("steps", k)

SpecProp == InitProp /\ [][NextProp]_vars

\* ------------------------------------------------------------------------
\* solveKepler pass by pass
\* ------------------------------------------------------------------------
\* mean anomalies 0, 0.1, ..., AnomalySteps/10 rad, and an iteration budget
\* too short for convergence
AnomalySteps == 62
ShortBudget == 2

\* the eccentricities of the supported range that the solver is tried on
SupportedE == { N(0), N(100), N(500), N(800), N(950) }

AnomalyGrid == { N(100 * j) : j \in 0..AnomalySteps }

\* arguments (M, e, maxiter) of the calls: the grid with the default budget,
\* and a negative M, a missing e, an e above 1 and a short budget
SolverInputs ==
    { << M, e, DefaultMaxIter >> : M \in AnomalyGrid, e \in SupportedE }
    \cup { << N(-2000), N(500), DefaultMaxIter >>,
           << N(1000), Undefined, DefaultMaxIter >>,
           << N(1000), N(1500), DefaultMaxIter >>,
           << N(1000), N(950), ShortBudget >>,
           << N(3000), N(500), 0 >> }
    \cup { << M, e, DefaultMaxIter >> :
             M \in { N(-7000), N(-100), TwoPi, N(13000) }, e \in { N(500), N(800) } }

\* the activation of solveKepler(M, e, tol, maxiter) after lines 375-376:
\* M normalised, E at its initial guess, no pass made
solveKeplerEnter(M, e, tol, maxiter) ==
    Let1(NormalizeAngle(M), LAMBDA Mn :
        [fn |-> "solveKepler", obj |-> 0, n |-> maxiter, at |-> FALSE,
         run |-> [E |-> InitialGuess(Mn, e), updates |-> 0, done |-> FALSE],
         arg |-> M, M |-> Mn, e |-> e, tol |-> tol, pc |-> "loop", ret |-> Undefined])

InitKepler ==
    /\ scene = NoScene
    /\ load = "pending"
    /\ tIndex = N(0)
    /\ playing = TRUE
    /\ speed = N(1000)
    /\ timer = "null"
    /\ runningTimers = 0
    /\ activeObjects = {}
    /\ drawn = << >>
    /\ map = NoMap
    /\ clsSubsampleFrac = [c \in AllClasses |-> Undefined]
    /\ call \in { solveKeplerEnter(a[1], a[2], DefaultTol, a[3]) : a \in SolverInputs }
    /\ memo = NoCall

\* one pass of the for loop (lines 377-383): i < maxiter and no break yet
solveKeplerPass ==
    /\ call.pc = "loop"
    /\ ~call.run.done
    /\ call.run.updates < call.n
    /\ call' = [call EXCEPT !.run = KeplerStep(call.run, call.M, call.e, call.tol, call.n)]
    /\ UNCHANGED << viewerVars, memo >>

\* the loop is left, by the break or by i = maxiter, and E is returned (line 384)
solveKeplerReturn ==
    /\ call.pc = "loop"
    /\ call.run.done \/ call.run.updates >= call.n
    /\ call' = [call EXCEPT !.pc = "returned", !.ret = call.run.E]
    /\ UNCHANGED << viewerVars, memo >>

NextKepler == solveKeplerPass \/ solveKeplerReturn

\* the call runs to its end: no pass and no return waits for ever
SpecKepler == InitKepler /\ [][NextKepler]_vars /\ WF_vars(NextKepler)

\* ------------------------------------------------------------------------
\* The viewer
\* ------------------------------------------------------------------------
\* Math.floor of a finite number
Floor(a) == N((a.v \div 1000) * 1000)

\* the index updateScene stores (line 291):
\* Math.floor(Math.max(0, Math.min(index, times_jd.length - 1)))
ClampIndex(index, len) ==
    Let2(ToNumber(index), N((len - 1) * 1000), LAMBDA a, last :
        IF a.k # "num" THEN a
        ELSE Floor(IF a.v > last.v THEN (IF last.v < 0 THEN N(0) ELSE last)
                   ELSE IF a.v < 0 THEN N(0) ELSE a))

\* updateScene(index), lines 289-318: the time index it leaves
updateScene(index) == IF scene.k = "null" THEN index ELSE ClampIndex(index, Len(scene.times_jd))

\* the classes of the scene, and the ids of one class (objectsByClass)
ClassesOf(s) == { s.objects[o].class : o \in 1..Len(s.objects) }
IdsOfClass(s, cls) == { s.objects[o].id : o \in { j \in 1..Len(s.objects) : s.objects[j].class = cls } }

\* nKeep of line 136
KeepCount(len, frac) ==
    Let1(Floor(Mul(N(len * 1000), frac)).v \div 1000, LAMBDA k : IF k > 1 THEN k ELSE 1)

\* arr.slice(0, nKeep) of the shuffled class (lines 135-137): any nKeep of
\* its ids, all of them when nKeep is the size of the class or more
KeptChoices(ids, nKeep) ==
    IF nKeep >= Cardinality(ids) THEN { ids }
    ELSE { kept \in SUBSET ids : Cardinality(kept) = nKeep }

\* DEFAULTS, lines 7-9
MAX_VISIBLE_BODIES == 800
TRAIL_LENGTH == 120
TRAIL_POINT_STEP == 2

\* the indices idx = Math.floor(k) that the loop of line 238 visits at time
\* index t: k from max(0, t - TRAIL_LENGTH * TRAIL_POINT_STEP) while k <= t,
\* by TRAIL_POINT_STEP; none when t is NaN
TrailIndices(t) ==
    IF t.k # "num" THEN << >>
    ELSE Let1(IF t.v > TRAIL_LENGTH * TRAIL_POINT_STEP * 1000
              THEN t.v - TRAIL_LENGTH * TRAIL_POINT_STEP * 1000 ELSE 0, LAMBDA k0 :
             [j \in 1..((t.v - k0) \div (TRAIL_POINT_STEP * 1000) + 1) |->
                 (k0 + (j - 1) * TRAIL_POINT_STEP * 1000) \div 1000])

\* pts of lines 237-245 for object o, as the indices pushed: those inside
\* o.x whose x and y are not null
TrailPoints(o, t) ==
    SelectSeq(TrailIndices(t),
              LAMBDA idx : idx < Len(o.x) /\ At(o.x, idx).k # "null" /\ At(o.y, idx).k # "null")

\* a redraw that draws every active object
redrawBodiesUncapped(sc, active, t) ==
    Let1(SelectSeq(sc.objects, LAMBDA o : o.id \in active), LAMBDA objs :
        [k \in 1..Len(objs) |-> [id |-> objs[k].id, pts |-> TrailPoints(objs[k], t)]])

\* redrawBodies (lines 213-286) at time index t: the svg is emptied, and the
\* first MAX_VISIBLE_BODIES active objects of the scene get a trail and a circle
redrawBodies(sc, active, t) ==
    Let1(SelectSeq(sc.objects, LAMBDA o : o.id \in active), LAMBDA objs :
        [k \in 1..(IF Len(objs) > MAX_VISIBLE_BODIES THEN MAX_VISIBLE_BODIES ELSE Len(objs)) |->
            [id |-> objs[k].id, pts |-> TrailPoints(objs[k], t)]])

\* startTimer (lines 327-340) and stopTimer (lines 341-343): the timers left
\* running
TimersAfterStartKeeping == runningTimers + 1
TimersAfterStart == (IF timer = "timer" THEN runningTimers - 1 ELSE runningTimers) + 1
TimersAfterStop == IF timer = "timer" THEN runningTimers - 1 ELSE runningTimers

Init ==
    /\ scene = NoScene
    /\ load = "pending"
    /\ tIndex = N(0)
    /\ playing = TRUE
    /\ speed \in SpeedChoices
    /\ timer = "null"
    /\ runningTimers = 0
    /\ activeObjects = {}
    /\ drawn = << >>
    /\ map = NoMap
    /\ clsSubsampleFrac = [c \in AllClasses |-> Undefined]
    /\ call = NoCall
    /\ memo = NoCall

\* d3.json resolves (lines 56-61): scene = s; initUI(); resetView(); startTimer()
LoadResolve(s) ==
    /\ load = "pending"
    /\ load' = "resolved"
    /\ scene' = s
    /\ clsSubsampleFrac' = [c \in AllClasses |-> IF c \in ClassesOf(s) THEN N(1000) ELSE Undefined]
    /\ timer' = "timer"
    /\ runningTimers' = TimersAfterStart
    /\ drawn' = << >>
    /\ UNCHANGED << tIndex, playing, speed, activeObjects, call, memo, map >>

\* d3.json rejects (lines 62-65)
LoadReject ==
    /\ load = "pending"
    /\ load' = "rejected"
    /\ UNCHANGED << scene, tIndex, playing, speed, timer, runningTimers,
                    activeObjects, clsSubsampleFrac, drawn, call, memo, map >>

\* playPauseBtn.onclick, lines 355-359 (the handler of lines 49-52 is replaced
\* before any click)
PlayPauseClick ==
    /\ playing' = ~playing
    /\ IF playing'
       THEN timer' = "timer" /\ runningTimers' = TimersAfterStart
       ELSE timer' = "null" /\ runningTimers' = TimersAfterStop
    /\ UNCHANGED << scene, load, tIndex, speed, activeObjects, clsSubsampleFrac,
                    drawn, call, memo, map >>

\* speedEl.oninput, line 53
SpeedInput(v) ==
    /\ speed' = v
    /\ UNCHANGED << scene, load, tIndex, playing, timer, runningTimers,
                    activeObjects, clsSubsampleFrac, drawn, call, memo, map >>

\* timeSlider.oninput, lines 346-352; without a scene redrawBodies throws
\* after the index is stored, with nothing in the svg to remove
SliderInput(v) ==
    /\ playing' = FALSE
    /\ tIndex' = updateScene(v)
    /\ drawn' = IF scene.k = "null" THEN drawn ELSE redrawBodies(scene, activeObjects, tIndex')
    /\ UNCHANGED << scene, load, speed, timer, runningTimers,
                    activeObjects, clsSubsampleFrac, call, memo, map >>

\* the time index one run of the timer callback leaves while playing
\* (lines 332-336)
TickIndex ==
    Let1(Add(tIndex, Mul(N(500), speed)), LAMBDA advanced :
        IF scene.k = "null" THEN advanced
        ELSE updateScene(IF ~Lt(advanced, N(Len(scene.times_jd) * 1000))
                         THEN N(0) ELSE advanced))

\* the timer callback reads scene.times_jd (line 334) and the slider handler
\* reads scene.objects in redrawBodies (line 221): a TypeError without a scene
HandlerThrows == scene.k = "null"

\* a timer callback without the test of the playing flag
TimerTickAlways ==
    /\ timer = "timer"
    /\ runningTimers > 0
    /\ scene.k = "null" => tIndex.v < MaxEarlyIndex * 1000
    /\ tIndex' = TickIndex
    /\ drawn' = IF scene.k = "null" THEN drawn ELSE redrawBodies(scene, activeObjects, tIndex')
    /\ UNCHANGED << scene, load, playing, speed, timer, runningTimers,
                    activeObjects, clsSubsampleFrac, call, memo, map >>

\* one run of the timer callback, lines 329-339: it returns at once while
\* not playing; without a scene it throws at line 334, after the index is
\* advanced
TimerTick ==
    /\ timer = "timer"
    /\ runningTimers > 0
    /\ IF ~playing
       THEN UNCHANGED vars
       ELSE /\ scene.k = "null" => tIndex.v < MaxEarlyIndex * 1000
            /\ tIndex' = TickIndex
            /\ drawn' = IF scene.k = "null" THEN drawn
                        ELSE redrawBodies(scene, activeObjects, tIndex')
            /\ UNCHANGED << scene, load, playing, speed, timer, runningTimers,
                            activeObjects, clsSubsampleFrac, call, memo, map >>

\* onClassToggle(cls, checked), lines 126-140, with the redraw it ends with;
\* the shuffle can bring any nKeep objects of the class to the front
ClassToggle(cls, checked) ==
    /\ load = "resolved"
    /\ cls \in ClassesOf(scene)
    /\ IF ~checked
       THEN activeObjects' = activeObjects \ IdsOfClass(scene, cls)
       ELSE \E kept \in KeptChoices(IdsOfClass(scene, cls),
                                     KeepCount(Cardinality(IdsOfClass(scene, cls)),
                                               IF clsSubsampleFrac[cls].k # "undefined"
                                               THEN clsSubsampleFrac[cls] ELSE N(1000))) :
               activeObjects' = activeObjects \cup kept
    /\ drawn' = redrawBodies(scene, activeObjects', tIndex)
    /\ tIndex' = updateScene(tIndex)
    /\ UNCHANGED << scene, load, playing, speed, timer, runningTimers,
                    clsSubsampleFrac, call, memo, map >>

\* the Clear All button, lines 112-117
ClearAll ==
    /\ load = "resolved"
    /\ activeObjects' = {}
    /\ drawn' = << >>
    /\ tIndex' = updateScene(tIndex)
    /\ UNCHANGED << scene, load, playing, speed, timer, runningTimers,
                    clsSubsampleFrac, call, memo, map >>

\* the change handler of a subsample input, lines 103-107
FracChange(cls, val) ==
    /\ load = "resolved"
    /\ cls \in ClassesOf(scene)
    /\ clsSubsampleFrac' =
          [clsSubsampleFrac EXCEPT ![cls] =
              IF val.k = "nan" THEN N(1000)
              ELSE IF Lt(N(1000), val) THEN N(1000)
              ELSE IF Lt(val, N(0)) THEN N(0) ELSE val]
    /\ UNCHANGED << scene, load, tIndex, playing, speed, timer, runningTimers,
                    activeObjects, drawn, call, memo, map >>

\* the Cross-validate button, lines 499-502
CrossValidateClick ==
    /\ IF scene.k = "null" THEN UNCHANGED vars ELSE crossValidateAllCall(200)

Next ==
    \/ LoadResolve(ViewerScene)
    \/ LoadReject
    \/ PlayPauseClick
    \/ \E v \in SpeedChoices : SpeedInput(v)
    \/ \E v \in SliderChoices : SliderInput(v)
    \/ TimerTick
    \/ \E cls \in AllClasses, checked \in BOOLEAN : ClassToggle(cls, checked)
    \/ ClearAll
    \/ \E cls \in AllClasses, val \in FracChoices : FracChange(cls, val)
    \/ CrossValidateClick
    \/ \E k \in KeplerChoices : solveKeplerCall(k[1], k[2])
    \/ \E t \in { -1, NT - 1 } : elementsToPositionCall(2, t)
    \/ crossValidateElementsCall(2, MaxSamples) /\ RememberFirst

Spec == Init /\ [][Next]_vars

\* the handlers of the viewer alone, the timer callback running on every
\* animation frame while its timer is active
NextPlay ==
    \/ LoadResolve(ViewerScene)
    \/ LoadReject
    \/ PlayPauseClick
    \/ \E v \in SpeedChoices : SpeedInput(v)
    \/ \E v \in SliderChoices : SliderInput(v)
    \/ TimerTick
    \/ \E cls \in AllClasses, checked \in BOOLEAN : ClassToggle(cls, checked)
    \/ ClearAll

SpecPlay == Init /\ [][NextPlay]_vars /\ WF_vars(TimerTick)

\* ------------------------------------------------------------------------
\* The viewer on a scene of more objects than it draws
\* ------------------------------------------------------------------------
\* the asteroids of the crowded scene
CrowdSize == 801

CrowdClasses == { "planets", "asteroids", "moons" }

\* a planet, CrowdSize asteroids and a moon, in this order
CrowdScene ==
    SceneOf([o \in 1..(CrowdSize + 2) |->
                Body(ToString(o),
                     IF o = 1 THEN "planets" ELSE IF o = CrowdSize + 2 THEN "moons" ELSE "asteroids",
                     NoElements("undefined"),
                     XArray({ 1 }, NT), YArray({}, NT), ZArray({}, NT))])

InitCrowd ==
    /\ scene = CrowdScene
    /\ load = "resolved"
    /\ tIndex = N(0)
    /\ playing = TRUE
    /\ speed = N(2000)
    /\ timer = "timer"
    /\ runningTimers = 1
    /\ activeObjects = {}
    /\ drawn = << >>
    /\ map = NoMap
    /\ clsSubsampleFrac = [c \in CrowdClasses |-> N(1000)]
    /\ call = NoCall
    /\ memo = NoCall

NextCrowd ==
    \/ \E cls \in CrowdClasses, checked \in BOOLEAN : ClassToggle(cls, checked)
    \/ ClearAll
    \/ \E v \in SliderChoices : SliderInput(v)
    \/ \E v \in SpeedChoices : SpeedInput(v)
    \/ TimerTick
    \/ PlayPauseClick

SpecCrowd == InitCrowd /\ [][NextCrowd]_vars

\* ------------------------------------------------------------------------
\* The viewer on a scene with a long time grid
\* ------------------------------------------------------------------------
\* the time steps of the long scene
LongGrid == 245

\* one asteroid, its x absent at two time indices and its y at one
LongScene ==
    [k |-> "obj",
     times_jd |-> [k \in 1..LongGrid |-> N(J2000.v + GridStep * (k - 1))],
     objects |-> << Body("b1", "asteroids", NoElements("undefined"),
                         XArray({ 10, 200 }, LongGrid), YArray({ 12 }, LongGrid),
                         ZArray({}, LongGrid)) >>]

\* slider values: the start, the last index whose trail starts at 0, the end
LongSliderChoices ==
    { N(0), N(TRAIL_LENGTH * TRAIL_POINT_STEP * 1000 - 1000), N((LongGrid - 1) * 1000) }

InitLong ==
    /\ scene = LongScene
    /\ load = "resolved"
    /\ tIndex = N(0)
    /\ playing = TRUE
    /\ speed = N(2000)
    /\ timer = "timer"
    /\ runningTimers = 1
    /\ activeObjects = {}
    /\ drawn = << >>
    /\ map = NoMap
    /\ clsSubsampleFrac = [c \in AllClasses |-> IF c = "asteroids" THEN N(1000) ELSE Undefined]
    /\ call = NoCall
    /\ memo = NoCall

NextLong ==
    \/ \E checked \in BOOLEAN : ClassToggle("asteroids", checked)
    \/ \E v \in LongSliderChoices : SliderInput(v)
    \/ TimerTick
    \/ PlayPauseClick

SpecLong == InitLong /\ [][NextLong]_vars

\* ------------------------------------------------------------------------
\* Properties of crossValidateElements
\* ------------------------------------------------------------------------
\* the last call was a call of crossValidateElements; its object and result
IsCV == call.fn = "crossValidateElements"
Validated == scene.objects[call.obj]
Absent(a) == a.k \in { "null", "undefined" }

\* x and y are both present at time index i
BothPresent(obj, i) == ~Absent(At(obj.x, i)) /\ ~Absent(At(obj.y, i))
PresentCount(obj, times) ==
    Cardinality({ i \in 0..(Len(times) - 1) : BothPresent(obj, i) })

\* a field of the elements is missing, or the elements are
ElementsLacking(obj) ==
    \/ obj.elements.k # "obj"
    \/ Absent(obj.elements.a_AU)
    \/ Absent(obj.elements.e)
    \/ Absent(obj.elements.i_deg)

\* C1: with fewer than 3 time indices at which x and y are both present, the
\* result is absent, whatever the elements and the sample count
C1_AbsentBelowThreePresent ==
    IsCV /\ PresentCount(Validated, scene.times_jd) < 3 => call.run.ret.k = "null"

\* C2: with the elements absent, or a, e or i of them missing or null, the
\* result is absent, however many valid samples there are
C2_AbsentWhenElementsLack ==
    IsCV /\ ElementsLacking(Validated) => call.run.ret.k = "null"

\* the stride max(1, floor(validCount / sampleCount))
Stride(v, n) == IF v \div n > 1 THEN v \div n ELSE 1

\* C3: the samples are the valid indices at positions 0, s, 2s, ... for the
\* stride s = max(1, floor(validCount / sampleCount)), as many as fit and at
\* most sampleCount of them, in strictly increasing order
C3_StrideSelection ==
    IsCV /\ Len(call.run.validIdx) >= 3 =>
        LET valid == call.run.validIdx
            smp == call.run.samples
        IN  IF call.n = 0 THEN smp = << >>
            ELSE /\ Len(smp) >= 1
                 /\ Len(smp) <= call.n
                 /\ smp[1] = valid[1]
                 /\ \A k \in 1..Len(smp) :
                        /\ 1 + (k - 1) * Stride(Len(valid), call.n) <= Len(valid)
                        /\ smp[k] = valid[1 + (k - 1) * Stride(Len(valid), call.n)]
                 /\ \A k \in 1..(Len(smp) - 1) : smp[k] < smp[k + 1]
                 /\ \/ Len(smp) = call.n
                    \/ Len(smp) * Stride(Len(valid), call.n) >= Len(valid)

\* a call with four valid indices and two samples asked for: stride 2
C3_Witness ==
    /\ IsCV
    /\ call.n = 2
    /\ Len(call.run.validIdx) = 4
    /\ Len(call.run.samples) = 2
    /\ call.run.samples[2] = call.run.validIdx[3]

\* C4: for validCount >= 3 and sampleCount >= 1 the last selected position is
\* less than one stride away from the last valid position
C4_SpansValidRange ==
    IsCV /\ Len(call.run.validIdx) >= 3 /\ call.n >= 1 =>
        (Len(call.run.validIdx) - 1)
            - (Len(call.run.samples) - 1) * Stride(Len(call.run.validIdx), call.n)
        < Stride(Len(call.run.validIdx), call.n)

C6_OnlyPresentSamples ==
    IsCV =>
        /\ \A k \in 1..Len(call.run.validIdx) : BothPresent(Validated, call.run.validIdx[k])
        /\ \A k \in 1..Len(call.run.terms) : BothPresent(Validated, call.run.terms[k].idx)
        /\ Len(call.run.validIdx) > 0 =>
               \A i \in 0..(Len(scene.times_jd) - 1) :
                   BothPresent(Validated, i) => \E k \in 1..Len(call.run.validIdx) :
                                                    call.run.validIdx[k] = i

\* C7 as stated: a sample whose z is absent gets no contribution from z
C7_AbsentZContributesNothing ==
    IsCV =>
        \A k \in 1..Len(call.run.terms) :
            Absent(At(Validated.z, call.run.terms[k].idx)) =>
                Mul(call.run.terms[k].dz, call.run.terms[k].dz) = N(0)

\* C7: a sample whose z is absent has its recorded z taken as 0 and is still
\* compared with the propagated z: dz = 0 - pz, and the squared distance is
\* dx^2 + dy^2 + pz^2
C7_AbsentZRecordedAsZero ==
    IsCV =>
        \A k \in 1..Len(call.run.terms) :
            LET t == call.run.terms[k]
            IN  Absent(At(Validated.z, t.idx)) =>
                    /\ t.dz = Sub(N(0), t.p[3])
                    /\ t.sq = Add(Add(Mul(t.dx, t.dx), Mul(t.dy, t.dy)),
                                  Mul(t.p[3], t.p[3]))

\* a sample with absent z on an inclined orbit, whose z term is not 0
C7_Witness ==
    /\ IsCV
    /\ \E k \in 1..Len(call.run.terms) :
           /\ Absent(At(Validated.z, call.run.terms[k].idx))
           /\ call.run.terms[k].dz.k = "num"
           /\ call.run.terms[k].dz.v # 0

\* the object with the node, the periapsis, the anomaly at epoch and the
\* epoch replaced
Reoriented(obj, Om, om, M, ep) ==
    IF obj.elements.k # "obj" THEN obj
    ELSE [obj EXCEPT !.elements.Omega_deg = Om, !.elements.omega_deg = om,
                     !.elements.M_deg = M, !.elements.epochJD = ep]

\* C8: the result is that of the object with node = periapsis = anomaly at
\* epoch = 0 and epoch = J2000, and that of any other object that differs
\* only in those four fields
C8_OrientationIgnored ==
    IsCV =>
        /\ call.run.ret =
               crossValidateRun(Reoriented(Validated, N(0), N(0), N(0), J2000),
                                scene.times_jd, call.n).ret
        /\ call.run.ret =
               crossValidateRun(Reoriented(Validated, N(123000), N(45000), N(200000),
                                           N(J2000.v + 3000)),
                                scene.times_jd, call.n).ret

\* a result for an object on an inclined, eccentric orbit whose four fields
\* are all different from the defaults
C8_Witness ==
    /\ IsCV
    /\ call.run.ret.k = "obj"
    /\ call.run.ret.rms_km.k = "num"
    /\ Validated.elements.e = N(500)
    /\ Validated.elements.i_deg = N(30000)
    /\ Validated.elements.Omega_deg # N(0)
    /\ Validated.elements.omega_deg # N(0)
    /\ Validated.elements.M_deg # N(0)
    /\ Validated.elements.epochJD # J2000

\* the elements are in the range the propagator is meant for: a > 0,
\* 0 <= e < 1 (a null e or i counts as 0)
ElementsInRange(obj) ==
    /\ obj.elements.k = "obj"
    /\ Lt(N(0), obj.elements.a_AU)
    /\ ~Lt(obj.elements.e, N(0))
    /\ Lt(obj.elements.e, N(1000))
    /\ ToNumber(obj.elements.i_deg).k = "num"

C9_SameResultOnRepeat ==
    memo.fn = "crossValidateElements" /\ IsCV /\ call.obj = memo.obj /\ call.n = memo.n
        => call.run.ret = memo.run.ret

\* a second call with the arguments of the first one, made after the
\* animation was paused or resumed, that returns a result
C9_Witness ==
    /\ memo.fn = "crossValidateElements"
    /\ IsCV
    /\ call.obj = memo.obj
    /\ call.n = memo.n
    /\ call.at # memo.at
    /\ call.run.ret.k = "obj"
    /\ call.run.ret.rms_km.k = "num"

\* C10: a step that makes a call of solveKepler, elementsToPosition,
\* crossValidateElements or crossValidateAll leaves the scene (elements,
\* recorded arrays, time grid) and the viewer state as they are
C10_CallsLeaveStateUnchanged ==
    [][call' # call => viewerVars' = viewerVars]_vars

\* a call of elementsToPosition after one of crossValidateElements, with
\* objects shown and the animation paused away from the first time index
C10_Witness ==
    /\ call.fn = "elementsToPosition"
    /\ memo.fn = "crossValidateElements"
    /\ activeObjects # {}
    /\ ~playing
    /\ tIndex # N(0)


\* a number, finite or not
IsNumeric(a) == a.k \in { "num", "nan", "inf" }

\* C11: no call of crossValidateElements or of elementsToPosition raises,
\* whatever the elements (absent, incomplete, out of range) and the recorded
\* arrays (absent entries, shorter than the time grid): crossValidateElements
\* returns null or a result whose rms is a number (possibly NaN or Infinity),
\* elementsToPosition returns three numbers (possibly NaN or Infinity)
C11_NeverRaises ==
    /\ IsCV =>
          /\ call.run.ret.k \in { "null", "obj" }
          /\ call.run.ret.k = "obj" => IsNumeric(call.run.ret.rms_km)
    /\ call.fn = "elementsToPosition" =>
          \A c \in 1..3 : IsNumeric(call.run[c])

\* a validation of an object with a negative semi-major axis has returned a
\* result whose rms is NaN
C11_Witness ==
    /\ IsCV
    /\ Validated.elements.k = "obj"
    /\ Lt(Validated.elements.a_AU, N(0))
    /\ call.run.ret.k = "obj"
    /\ call.run.ret.rms_km.k = "nan"


\* C12: solveKepler always terminates: every call returns; it makes at most
\* maxiter Newton updates; a pass is made only while no update has had
\* |dE| < tol, and the pass that has it is the last one; what is returned is
\* the last estimate E, a value and not an exception, whether or not the
\* loop has converged, and it is the value of solveKepler computed in one go
C12_Terminates ==
    /\ <>(call.pc = "returned")
    /\ [](call.run.updates <= call.n)
    /\ [][call'.run # call.run =>
              /\ ~call.run.done
              /\ call'.run.updates = call.run.updates + 1
              /\ call'.run.done = Lt(Abs(Sub(call'.run.E, call.run.E)), call.tol)]_vars
    /\ [](call.pc = "returned" =>
              /\ call.run.done \/ call.run.updates = call.n
              /\ call.ret = call.run.E
              /\ call.ret.k \in { "num", "nan", "inf" }
              /\ call.ret = solveKepler(call.arg, call.e, call.tol, call.n))

\* a call has used its whole default budget of 80 updates without an update
\* below the tolerance, and has returned
C12_Witness ==
    /\ call.fn = "solveKepler"
    /\ call.pc = "returned"
    /\ ~call.run.done
    /\ call.n = DefaultMaxIter
    /\ call.run.updates = DefaultMaxIter


\* the residual of Kepler's equation at E, and the bound set on it: ten times
\* the solver's tolerance, as 1e-8 is to 1e-9
KeplerResidual(E, e, M) == Abs(Sub(Sub(E, Mul(e, Sin(E))), M))
ResidualBound == Mul(N(10000), DefaultTol)

\* a call on the supported range: e in {0, 0.1, 0.5, 0.8, 0.95}, M in
\* [0, 2 pi), the default tolerance and iteration budget
OnSupportedRange ==
    /\ call.fn = "solveKepler"
    /\ call.e \in SupportedE
    /\ call.arg.k = "num" /\ call.arg.v >= 0 /\ call.arg.v < TwoPi.v
    /\ call.tol = DefaultTol
    /\ call.n = DefaultMaxIter

C14_ValidatesAtMostLimit ==
    call.fn = "crossValidateAll" => Len(call.validated) <= call.n


\* C15: a run of crossValidateAll, while the animation plays or not, leaves
\* the scene with its objects and positions, the time index, the playing
\* flag, the timer and the set of active objects as they were
C15_ReportLeavesViewerUnchanged ==
    [][call'.fn = "crossValidateAll" /\ call' # call =>
          UNCHANGED << scene, tIndex, playing, timer, runningTimers, activeObjects,
                       drawn >>]_vars

\* crossValidateAll has run while the animation was playing and objects were
\* active, has pushed a result, and the objects are still active
C15_Witness ==
    /\ call.fn = "crossValidateAll"
    /\ call.at
    /\ Len(call.run) > 0
    /\ Len(call.validated) > Len(call.run)
    /\ activeObjects = { "b1", "b2" }


\* the element set of a call of elementsToPositionAt, and its own position
IsProp == call.fn = "elementsToPosition" /\ call.obj = 1
Propagated == scene.objects[1].elements
PositionAt(el, targetJD) ==
    elementsToPosition(el.a_AU, el.e, el.i_deg, el.Omega_deg, el.omega_deg,
                       el.M_deg, el.epochJD, targetJD)

\* C16: with no target date, and a > 0, elementsToPosition returns what it
\* returns for a target date equal to the epoch of the elements
C16_AbsentTargetIsEpoch ==
    IsProp /\ call.target.k = "null" /\ Lt(N(0), Propagated.a_AU) =>
        call.run = PositionAt(Propagated, Propagated.epochJD)

\* a call without target date on elements with M_deg = 90, an epoch that is
\* not J2000 and a wider orbit has returned a position
C16_Witness ==
    /\ IsProp
    /\ call.target.k = "null"
    /\ Propagated.a_AU = N(2000)
    /\ Propagated.M_deg = N(90000)
    /\ Propagated.epochJD # J2000
    /\ \A c \in 1..3 : call.run[c].k = "num"


\* the largest difference of two positions in a coordinate, and the distance
\* of a position from the origin
Deviation(p, q) ==
    Let2(Abs(Sub(p[1], q[1])), Abs(Sub(p[2], q[2])), LAMBDA dx, dy :
    Let1(Abs(Sub(p[3], q[3])), LAMBDA dz :
        IF Lt(dx, dy) THEN (IF Lt(dy, dz) THEN dz ELSE dy)
        ELSE IF Lt(dx, dz) THEN dz ELSE dx))
Radius(p) == Sqrt(Add(Add(Mul(p[1], p[1]), Mul(p[2], p[2])), Mul(p[3], p[3])))

\* positions are taken as equal when they differ by less than 1 percent of
\* an astronomical unit in every coordinate
PositionTol == N(15)

\* elements with a > 0 and 0 <= e < 1
ValidElements(el) == Lt(N(0), el.a_AU) /\ ~Lt(el.e, N(0)) /\ Lt(el.e, N(1000))

\* C17: for valid elements and every whole number k of periods, negative
\* ones included, the position at epoch + k * period is the position at the
\* epoch
C17_Periodic ==
    IsProp /\ call.how = "periods" /\ ValidElements(Propagated) =>
        Lt(Deviation(call.run, PositionAt(Propagated, Propagated.epochJD)), PositionTol)

\* a call two periods before the epoch, on an eccentric, inclined orbit
\* with M_deg = 90, has returned a position
C17_Witness ==
    /\ IsProp
    /\ call.how = "periods"
    /\ call.n = 0 - MaxPeriods
    /\ Lt(call.target, Propagated.epochJD)
    /\ Propagated.e = N(500)
    /\ Propagated.i_deg = N(30000)
    /\ Propagated.M_deg = N(90000)
    /\ \A c \in 1..3 : call.run[c].k = "num"

\* C18: for a circular orbit (e = 0) the position returned, at every target
\* date and for every orientation, is at distance a (in km) from the origin
C18_CircularRadius ==
    IsProp /\ Propagated.e = N(0) /\ Lt(N(0), Propagated.a_AU) =>
        Lt(Abs(Sub(Radius(call.run), Mul(Propagated.a_AU, AU_KM))), PositionTol)

\* a call on a circular, inclined orbit with a turned node and periapsis, at
\* a target date after the epoch, has returned a position
C18_Witness ==
    /\ IsProp
    /\ call.how = "steps"
    /\ Propagated.e = N(0)
    /\ Propagated.i_deg = N(30000)
    /\ Propagated.Omega_deg = N(40000)
    /\ Propagated.omega_deg = N(60000)
    /\ \A c \in 1..3 : call.run[c].k = "num"


\* the active objects in the order of the scene
ActiveInOrder == SelectSeq(scene.objects, LAMBDA o : o.id \in activeObjects)

\* C19: at every moment, after any class toggles, Clear All, slider inputs
\* and timer ticks, at most MAX_VISIBLE_BODIES bodies are drawn, and they are
\* the first active objects in the order of the scene
C19_DrawnCapped ==
    /\ Len(drawn) <= MAX_VISIBLE_BODIES
    /\ Len(drawn) <= Len(ActiveInOrder)
    /\ Len(drawn) < Len(ActiveInOrder) => Len(drawn) = MAX_VISIBLE_BODIES
    /\ \A k \in 1..Len(drawn) : drawn[k].id = ActiveInOrder[k].id

\* more than MAX_VISIBLE_BODIES objects are active, MAX_VISIBLE_BODIES of
\* them are drawn, and the time index has moved
C19_Witness ==
    /\ Cardinality(activeObjects) > MAX_VISIBLE_BODIES
    /\ Len(drawn) = MAX_VISIBLE_BODIES
    /\ drawn[1].id = scene.objects[1].id
    /\ tIndex # N(0)

\* the object a drawn body stands for
ObjectOf(id) == CHOOSE o \in { scene.objects[j] : j \in 1..Len(scene.objects) } : o.id = id

\* the time indices TRAIL_POINT_STEP apart, from the current one back, the
\* current one and TRAIL_LENGTH - 1 before it
TrailSpan ==
    { i \in 0..(tIndex.v \div 1000) :
        /\ (tIndex.v \div 1000 - i) % TRAIL_POINT_STEP = 0
        /\ tIndex.v \div 1000 - i < TRAIL_LENGTH * TRAIL_POINT_STEP }

\* C20: at every time index, the trail points collected for a drawn body
\* are at most TRAIL_LENGTH, and they are the time indices TRAIL_POINT_STEP
\* apart, up to and including the current one, at which x and y are there
C20_TrailWithinLength ==
    \A k \in 1..Len(drawn) :
        /\ Len(drawn[k].pts) <= TRAIL_LENGTH
        /\ { drawn[k].pts[j] : j \in 1..Len(drawn[k].pts) } =
               { i \in TrailSpan : ~Absent(At(ObjectOf(drawn[k].id).x, i))
                                     /\ ~Absent(At(ObjectOf(drawn[k].id).y, i)) }


\* a call of solveKepler with finite M and e that has made no pass yet
AtFirstGuess ==
    /\ call.fn = "solveKepler"
    /\ call.pc = "loop"
    /\ call.run.updates = 0
    /\ call.arg.k = "num"
    /\ call.e.k = "num"

\* C22: the Newton iteration starts from the reduced M when e < 0.8 and from
\* pi when e >= 0.8, e = 0.8 included; the reduced M is in [0, 2 pi) and
\* differs from M by a whole number of turns, for M negative or above 2 pi
C22_InitialGuess ==
    AtFirstGuess =>
        /\ call.M.k = "num"
        /\ call.M.v >= 0 /\ call.M.v < TwoPi.v
        /\ (call.M.v - call.arg.v) % TwoPi.v = 0
        /\ call.run.E = IF call.e.v < 800 THEN call.M ELSE PI

\* a call with e exactly 0.8 and an M below -2 pi is at its initial guess
C22_Witness ==
    /\ AtFirstGuess
    /\ call.e = N(800)
    /\ call.arg.v < 0 - TwoPi.v
    /\ call.M # PI


\* C23: with 3 or more valid indices and a sample count of 1 or more, the
\* samples taken are exactly min(sampleCount, validCount), and the count
\* returned is their number
C23_SampleCountIsMin ==
    IsCV /\ Len(call.run.validIdx) >= 3 /\ call.n >= 1 =>
        /\ Len(call.run.samples) =
               (IF call.n < Len(call.run.validIdx) THEN call.n ELSE Len(call.run.validIdx))
        /\ call.run.ret.k = "obj"
        /\ call.run.ret.samples = Len(call.run.samples)

\* a validation asked for fewer samples than the valid indices, which the
\* sample count does not divide, has returned as many samples as asked for
C23_Witness ==
    /\ IsCV
    /\ call.n >= 2
    /\ Len(call.run.validIdx) > call.n
    /\ Len(call.run.validIdx) % call.n # 0
    /\ call.run.ret.k = "obj"
    /\ call.run.ret.samples = call.n


\* the objects that have elements and a non-absent result, in scene order
RECURSIVE EligibleFrom(_)
EligibleFrom(o) ==
    IF o > Len(scene.objects) THEN << >>
    ELSE (IF scene.objects[o].elements.k = "obj"
             /\ crossValidateRun(scene.objects[o], scene.times_jd, 6).ret.k = "obj"
          THEN << scene.objects[o].id >> ELSE << >>) \o EligibleFrom(o + 1)

\* C24: for every limit of 1 or more, the summary covers at most `limit`
\* results; the results are those of the first objects, in scene order, that
\* have elements and a non-absent result; and count, mean and median are
\* taken over all of them and printed
C24_SummaryCoversResults ==
    call.fn = "crossValidateAll" /\ call.n >= 1 =>
        Let1(EligibleFrom(1), LAMBDA eligible :
            /\ call.summary.count <= call.n
            /\ call.summary.count = (IF Len(eligible) < call.n THEN Len(eligible) ELSE call.n)
            /\ \A k \in 1..Len(call.run) : call.run[k].id = eligible[k]
            /\ call.summary.count = Len(call.run)
            /\ call.summary.used = call.summary.count
            /\ ~call.summary.threw)


\* ------------------------------------------------------------------------
\* The orbital map: hover and focus on one rendered object
\* ------------------------------------------------------------------------
\* size mapping parameters
MIN_RADIUS_PX == 1
MAX_RADIUS_PX == 40
SIZE_SCALE == N(850)

\* areaToRadiusPx(area): the radius in px
areaToRadiusPx(area) ==
    IF area.k # "num" \/ area.v <= 0 THEN N(MIN_RADIUS_PX * 1000)
    ELSE Let1(Mul(Sqrt(area), SIZE_SCALE), LAMBDA r :
             IF r.v > MAX_RADIUS_PX * 1000 THEN N(MAX_RADIUS_PX * 1000)
             ELSE IF r.v < MIN_RADIUS_PX * 1000 THEN N(MIN_RADIUS_PX * 1000) ELSE r)

\* the r attribute of the circle is held in 1/1024 of a thousandth of a px,
\* so that the factors 1.25 and 1/1.25 and the halfway values are exact
FineRadius(r) == r.v * 1024
MinFine == FineRadius(N(MIN_RADIUS_PX * 1000))
MaxFine == FineRadius(N(MAX_RADIUS_PX * 1000))

\* the radius the enter transition aims at, and the one the leave transition
\* aims at, from the current r attribute
EnterRadius(current) == IF (current * 5) \div 4 > MaxFine THEN MaxFine ELSE (current * 5) \div 4
LeaveRadius(current) == IF (current * 4) \div 5 < MinFine THEN MinFine ELSE (current * 4) \div 5

\* the areas of the rendered object: no diameter, and areas that put the
\* radius at the floor, inside the range and within a factor 1.25 of the cap
AreaChoices == { NaN, N(1000), N(25000), N(400000), N(1600000) }

\* how many pointer and focus events one behaviour holds
MaxEvents == 4

\* renderObjects for one object: orbit and circle at opacity 0.8, the
\* circle at r_px, the label at opacity 0
Rendered(area) ==
    [pointer |-> "none", focused |-> FALSE, opacity |-> 800, label |-> 0, display |-> "shown",
     r |-> FineRadius(areaToRadiusPx(area)), r0 |-> FineRadius(areaToRadiusPx(area)),
     pending |-> "none", active |-> NoTransition, events |-> 0]

InitMap ==
    /\ scene = NoScene
    /\ load = "pending"
    /\ tIndex = N(0)
    /\ playing = TRUE
    /\ speed = N(1000)
    /\ timer = "null"
    /\ runningTimers = 0
    /\ activeObjects = {}
    /\ drawn = << >>
    /\ clsSubsampleFrac = [c \in AllClasses |-> Undefined]
    /\ call = NoCall
    /\ memo = NoCall
    /\ map \in { Rendered(area) : area \in AreaChoices }

\* _onPointerEnter: transitions to opacity 1 and to the grown radius are
\* scheduled on orbit and circle, replacing the ones still waiting for their
\* first frame; the label is displayed at once and its transition scheduled
onPointerEnter(m) == [m EXCEPT !.pending = "enter", !.display = "shown", !.events = @ + 1]

\* _onPointerLeave: transitions to opacity 0.8 and to the shrunk radius, and
\* the transition of the label to opacity 0, are scheduled
onPointerLeave(m) == [m EXCEPT !.pending = "leave", !.events = @ + 1]

\* pointerenter on the orbit path or on the body group
PointerEnter(el) ==
    /\ map.events < MaxEvents
    /\ map.pointer = "none"
    /\ map' = [onPointerEnter(map) EXCEPT !.pointer = el]
    /\ UNCHANGED << scene, load, tIndex, playing, speed, timer, runningTimers,
                    activeObjects, clsSubsampleFrac, drawn, call, memo >>

\* pointerleave on the element the pointer is over
PointerLeave ==
    /\ map.events < MaxEvents
    /\ map.pointer # "none"
    /\ map' = [onPointerLeave(map) EXCEPT !.pointer = "none"]
    /\ UNCHANGED << scene, load, tIndex, playing, speed, timer, runningTimers,
                    activeObjects, clsSubsampleFrac, drawn, call, memo >>

\* focus on the body group
Focus ==
    /\ map.events < MaxEvents
    /\ ~map.focused
    /\ map' = [onPointerEnter(map) EXCEPT !.focused = TRUE]
    /\ UNCHANGED << scene, load, tIndex, playing, speed, timer, runningTimers,
                    activeObjects, clsSubsampleFrac, drawn, call, memo >>

\* blur on the body group
Blur ==
    /\ map.events < MaxEvents
    /\ map.focused
    /\ map' = [onPointerLeave(map) EXCEPT !.focused = FALSE]
    /\ UNCHANGED << scene, load, tIndex, playing, speed, timer, runningTimers,
                    activeObjects, clsSubsampleFrac, drawn, call, memo >>

\* the first frame of the scheduled transitions: the running ones, which
\* have had their frame before, are interrupted where they are, and the
\* targets are taken from the attributes as they are now
TransitionStart ==
    /\ map.pending # "none"
    /\ map.active.kind # "none" => map.active.ticked
    /\ map' = [map EXCEPT
                 !.pending = "none",
                 !.active = IF map.pending = "enter"
                            THEN [kind |-> "enter", ticked |-> FALSE, toOpacity |-> 1000,
                                  toLabel |-> 1000, toR |-> EnterRadius(map.r)]
                            ELSE [kind |-> "leave", ticked |-> FALSE, toOpacity |-> 800,
                                  toLabel |-> 0, toR |-> LeaveRadius(map.r)]]
    /\ UNCHANGED << scene, load, tIndex, playing, speed, timer, runningTimers,
                    activeObjects, clsSubsampleFrac, drawn, call, memo >>

\* a frame within the running transitions: the attributes are halfway
TransitionTick ==
    /\ map.active.kind # "none"
    /\ ~map.active.ticked
    /\ map' = [map EXCEPT
                 !.active.ticked = TRUE,
                 !.opacity = (@ + map.active.toOpacity) \div 2,
                 !.label = (@ + map.active.toLabel) \div 2,
                 !.r = (@ + map.active.toR) \div 2]
    /\ UNCHANGED << scene, load, tIndex, playing, speed, timer, runningTimers,
                    activeObjects, clsSubsampleFrac, drawn, call, memo >>

\* the last frame of the running transitions: the attributes are at their
\* targets, and the end listener of a leave hides the label
TransitionEnd ==
    /\ map.active.kind # "none"
    /\ map' = [map EXCEPT
                 !.active = NoTransition,
                 !.opacity = map.active.toOpacity,
                 !.label = map.active.toLabel,
                 !.r = map.active.toR,
                 !.display = IF map.active.kind = "leave" THEN "none" ELSE @]
    /\ UNCHANGED << scene, load, tIndex, playing, speed, timer, runningTimers,
                    activeObjects, clsSubsampleFrac, drawn, call, memo >>

NextMap ==
    \/ \E el \in { "orbit", "body" } : PointerEnter(el)
    \/ PointerLeave
    \/ Focus
    \/ Blur
    \/ TransitionStart
    \/ TransitionTick
    \/ TransitionEnd

SpecMap == InitMap /\ [][NextMap]_vars

\* ------------------------------------------------------------------------
\* Properties of the animation
\* ------------------------------------------------------------------------
\* C25: while playing on a loaded scene of 2 time steps or more, whatever
\* the positive speed, the time index does not stay where it is forever
C25_AnimationProgresses ==
    \A i \in 0..(NT - 1) :
        (scene.k = "obj" /\ playing /\ timer = "timer" /\ tIndex = N(i * 1000))
            ~> (~playing \/ tIndex # N(i * 1000))

\* C26: no run of the timer callback and no slider input happens while the
\* scene is null, so none of them throws
C26_NoHandlerBeforeLoad ==
    [][(TimerTick /\ playing) \/ (\E v \in SliderChoices : SliderInput(v)) => ~HandlerThrows]_vars

\* an integer time index inside the grid of the scene
IsGridIndex(t) ==
    t.k = "num" /\ t.v % 1000 = 0 /\ t.v >= 0 /\ t.v <= (Len(scene.times_jd) - 1) * 1000

\* C27: on a loaded scene with a non-empty grid, wherever a timer tick, a
\* slider input or a class toggle runs, the time index it leaves is an
\* integer inside the grid
C27_IndexInGrid ==
    scene.k = "obj" /\ Len(scene.times_jd) > 0 =>
        /\ timer = "timer" /\ runningTimers > 0 =>
               IsGridIndex(IF playing THEN TickIndex ELSE tIndex)
        /\ \A v \in SliderChoices : IsGridIndex(updateScene(v))
        /\ IsGridIndex(updateScene(tIndex))

\* the slider value v clamped to the grid of the scene
ClampedToGrid(v) ==
    IF v.v > (Len(scene.times_jd) - 1) * 1000 THEN N((Len(scene.times_jd) - 1) * 1000)
    ELSE IF v.v < 0 THEN N(0) ELSE v

C29_OneTimer ==
    /\ runningTimers \in { 0, 1 }
    /\ runningTimers = 1 <=> timer = "timer"

\* paused by the button after the animation has run: no timer is left
C29_Witness ==
    /\ load = "resolved"
    /\ ~playing
    /\ timer = "null"
    /\ runningTimers = 0
    /\ tIndex # N(0)


\* ------------------------------------------------------------------------
\* Properties of the orbital map
\* ------------------------------------------------------------------------
\* no transition of the object is scheduled or running
Settled == map.pending = "none" /\ map.active.kind = "none"
Highlighted == map.pointer # "none" \/ map.focused
LabelShown == map.display = "shown" /\ map.label = 1000

\* C21: once the transitions have run, orbit and body are at opacity 1 with
\* the label shown if the object is hovered or focused, and at opacity 0.8
\* with the label hidden if it is neither
C21_HighlightWhileHoveredOrFocused ==
    Settled =>
        IF Highlighted THEN map.opacity = 1000 /\ LabelShown
        ELSE map.opacity = 800 /\ ~LabelShown

\* C30: once the transitions have run and the object is neither hovered nor
\* focused, the radius of the body is the rendered one, within
\* [MIN_RADIUS_PX, MAX_RADIUS_PX]
C30_RadiusRoundTrip ==
    Settled /\ ~Highlighted =>
        map.r = map.r0 /\ map.r >= MinFine /\ map.r <= MaxFine

=============================================================================
